---- MODULE Spec2Model ----
(***************************************************************************)
(* CodeClinic (Django app "main"): the entity store (Problem, Solution,    *)
(* Vote), the request handlers of views.py that write it or rank/aggregate *)
(* it, and the interleaving of concurrently served requests.  Every ORM    *)
(* call is one statement against the database in autocommit mode, so a     *)
(* handler that issues several ORM calls is several steps here.            *)
(***************************************************************************)
EXTENDS Integers, Sequences, FiniteSets, TLC

\* ---------------------------------------------------------------- bounds
MaxProblems == 1
MaxSolutions == 3
MaxVotes == 2

Users == {1, 2}
\* request workers that may serve vote_solution at the same time
Procs == {1, 2}

\* ------------------------------------------------------------- constants
NoUser == 0
TopLimit == 10

VALID_TOPICS ==
    {"Arrays", "Strings", "Math", "Binary Search", "Graphs",
     "Dynamic Programming", "Sorting", "Hashmaps", "Recursion", "Trees"}

\* vote_type is <str:vote_type> in the URL: any string; "sideways" stands
\* for every string other than the two the model field declares as choices
VoteTypes == {"up", "down", "sideways"}
VoteChoices == {"up", "down"}

\* request.POST.get("description"): absent (None) or a text, given by the
\* keywords of infer_answer_type that the lower-cased text contains
Keywords == {"example", "sample", "explain", "why", "how does", "opinion", "best"}
Descriptions ==
    {[given |-> FALSE, words |-> {}],
     [given |-> TRUE, words |-> {}],
     [given |-> TRUE, words |-> {"sample", "best"}],
     [given |-> TRUE, words |-> {"why", "opinion"}]}

\* genai_client.models.generate_content(...): raises (ok = FALSE), or
\* returns a response whose stripped text is `text`
ClassifyResponses ==
    {[ok |-> TRUE, text |-> "Arrays"],
     [ok |-> TRUE, text |-> "Heaps"],
     [ok |-> FALSE, text |-> ""]}
GenerateResponses ==
    {[ok |-> TRUE, text |-> "generated"],
     [ok |-> FALSE, text |-> ""]}

\* request.POST.get("content") of add_human_solution
Contents == {"", "text"}

VARIABLES
    AI_ENABLED,   \* module global of views.py, fixed at import
    problems,     \* Problem rows
    solutions,    \* Solution rows
    votes,        \* Vote rows
    nextVoteId,   \* Vote's auto-increment primary key
    now,          \* the clock auto_now_add reads
    req,          \* per worker: the vote_solution request it is serving
    rep,          \* the reports_dashboard request being served
    solo,         \* history: the worker whose request runs alone, and the rows it found
    hist,         \* history: the vote_solution calls completed back to back, alone
    last          \* history: what the last step returned to its client

vars == <<AI_ENABLED, problems, solutions, votes, nextVoteId, now, req, rep,
          solo, hist, last>>

\* --------------------------------------------------------------- helpers
Min(a, b) == IF a < b THEN a ELSE b

Perms(S) ==
    {f \in [1..Cardinality(S) -> S] : \A i, j \in DOMAIN f : i # j => f[i] # f[j]}

RECURSIVE LexLess(_, _)
LexLess(a, b) ==
    IF a = <<>> \/ b = <<>> THEN FALSE
    ELSE IF Head(a) < Head(b) THEN TRUE
    ELSE IF Head(a) > Head(b) THEN FALSE
    ELSE LexLess(Tail(a), Tail(b))

\* ORDER BY: rows is a sequence of [key, row] in the order the database
\* happens to scan them; the result is ordered by key, ascending
RECURSIVE InsertRow(_, _)
InsertRow(x, sorted) ==
    IF sorted = <<>> THEN <<x>>
    ELSE IF LexLess(x.key, Head(sorted).key) THEN <<x>> \o sorted
    ELSE <<Head(sorted)>> \o InsertRow(x, Tail(sorted))

RECURSIVE OrderBy(_)
OrderBy(rows) ==
    IF rows = <<>> THEN <<>>
    ELSE InsertRow(rows[Len(rows)], OrderBy(SubSeq(rows, 1, Len(rows) - 1)))

\* queryset[:n]
Limit(s, n) == SubSeq(s, 1, Min(Len(s), n))

\* -------------------------------------------------------------- the store
NullVote == [id |-> 0, solution |-> 0, user |-> 0, type |-> "NULL"]

ProblemIds == {p.id : p \in problems}
SolutionIds == {s.id : s \in solutions}
SolutionById(sid) == CHOOSE s \in solutions : s.id = sid

\* solution LEFT OUTER JOIN vote ON vote.solution_id = solution.id
JoinVote(s) ==
    LET vs == {v \in votes : v.solution = s.id}
    IN  IF vs = {} THEN {[solution |-> s, vote |-> NullVote]}
        ELSE {[solution |-> s, vote |-> v] : v \in vs}

\* Count("vote", filter=Q(vote__type=t)) over the joined rows of one solution
CountVoteType(s, t) ==
    Cardinality({r \in JoinVote(s) : r.vote.id # 0 /\ r.vote.type = t})

\* Count("vote") over the joined rows of one solution
CountVote(s) == Cardinality({r \in JoinVote(s) : r.vote.id # 0})

\* ------------------------------------------------------------- histories
NoResponse == [op |-> "none"]
Idle == [pc |-> "idle", user |-> 0, solution |-> 0, vote_type |-> "",
         vote |-> NullVote, created |-> FALSE, message |-> ""]
RepIdle == [pc |-> "idle", total_problems |-> 0, total_solutions |-> 0,
            total_votes |-> 0, ai_solutions |-> 0, human_solutions |-> 0,
            ai_votes |-> 0, human_votes |-> 0]

AllIdle == (\A q \in Procs : req[q].pc = "idle") /\ rep.pc = "idle"

\* ------------------------------------------------------------ submit_problem
\* AiResult without line 136: the topic set before the try block survives
AiResultTopicKept(c, g) ==
    IF ~AI_ENABLED
    THEN [topic |-> "Uncategorized", text |-> "AI service unavailable."]
    ELSE IF ~c.ok \/ ~g.ok
    THEN [topic |-> "Uncategorized", text |-> "AI failed to generate a solution."]
    ELSE [topic |-> IF c.text \in VALID_TOPICS THEN c.text ELSE "Uncategorized",
          text |-> g.text]

\* views.py 88-136: the topic and the solution text
AiResult(c, g) ==
    IF ~AI_ENABLED
    THEN [topic |-> "Uncategorized", text |-> "AI service unavailable."]
    ELSE IF ~c.ok \/ ~g.ok
    THEN [topic |-> "Unknown", text |-> "AI failed to generate a solution."]
    ELSE [topic |-> IF c.text \in VALID_TOPICS THEN c.text ELSE "Uncategorized",
          text |-> g.text]

\* which way through views.py 91-136 the request took
AiCase(c, g) ==
    IF ~AI_ENABLED THEN "disabled"
    ELSE IF ~c.ok THEN "classify_failed"
    ELSE IF ~g.ok THEN "generate_failed"
    ELSE IF c.text \in VALID_TOPICS THEN "ok" ELSE "ok_other_topic"

infer_answer_type(q) ==
    IF "example" \in q \/ "sample" \in q THEN "example"
    ELSE IF "explain" \in q \/ "why" \in q \/ "how does" \in q THEN "explanation"
    ELSE IF "opinion" \in q \/ "best" \in q THEN "opinion"
    ELSE "direct"

\* AiSolutionRow with author=request.user passed, as add_human_solution does
AiSolutionRowAuthored(sid, pid, u, text, atype, t) ==
    [id |-> sid, problem |-> pid, content |-> text, author |-> u,
     ai_generated |-> TRUE, answer_type |-> atype, created_at |-> t]

\* views.py 156-161
AiSolutionRow(sid, pid, u, text, atype, t) ==
    [id |-> sid, problem |-> pid, content |-> text, author |-> NoUser,
     ai_generated |-> TRUE, answer_type |-> atype, created_at |-> t]

\* views.py 173-179
HumanSolutionRow(sid, pid, u, text, t) ==
    [id |-> sid, problem |-> pid, content |-> text, author |-> u,
     ai_generated |-> FALSE, answer_type |-> "direct", created_at |-> t]

SubmitProblem(u, d, c, g) ==
    /\ UNCHANGED <<AI_ENABLED, votes, nextVoteId, req, rep>>
    /\ IF ~d.given
       THEN \* Problem.objects.create(description=None): the NOT NULL column
            \* rejects the row and the view ends in a server error
            /\ UNCHANGED <<problems, solutions, now>>
            /\ last' = [op |-> "submit_problem", status |-> 500,
                        given |-> FALSE, ai |-> AiCase(c, g),
                        problems_before |-> Cardinality(problems),
                        solutions_before |-> Cardinality(solutions),
                        problem_id |-> 0]
       ELSE /\ Cardinality(problems) < MaxProblems
            /\ Cardinality(solutions) < MaxSolutions
            /\ LET pid == Cardinality(problems) + 1
                   sid == Cardinality(solutions) + 1
                   r == AiResult(c, g)
               IN  /\ problems' = problems \cup
                          {[id |-> pid, user |-> u, topic |-> r.topic]}
                   /\ solutions' = solutions \cup
                          {AiSolutionRow(sid, pid, u, r.text,
                                         infer_answer_type(d.words), now + 1)}
                   /\ now' = now + 1
                   /\ last' = [op |-> "submit_problem", status |-> 302,
                               given |-> TRUE, ai |-> AiCase(c, g),
                               problems_before |-> Cardinality(problems),
                               solutions_before |-> Cardinality(solutions),
                               problem_id |-> pid]

\* --------------------------------------------------------- add_human_solution
AddHumanSolution(u, pid, content) ==
    /\ UNCHANGED <<AI_ENABLED, problems, votes, nextVoteId, req, rep>>
    /\ IF pid \notin ProblemIds
       THEN /\ UNCHANGED <<solutions, now>>
            /\ last' = [op |-> "add_human_solution", status |-> 404]
       ELSE IF content = ""
       THEN /\ UNCHANGED <<solutions, now>>
            /\ last' = [op |-> "add_human_solution", status |-> 302]
       ELSE /\ Cardinality(solutions) < MaxSolutions
            /\ solutions' = solutions \cup
                   {HumanSolutionRow(Cardinality(solutions) + 1, pid, u,
                                     content, now + 1)}
            /\ now' = now + 1
            /\ last' = [op |-> "add_human_solution", status |-> 302]

\* -------------------------------------------------------------- problem_detail
\* the rank of answer_type in the ascending order of the column's strings
AnswerTypeRank(a) ==
    CASE a = "direct" -> 1
      [] a = "example" -> 2
      [] a = "explanation" -> 3
      [] a = "opinion" -> 4

\* views.py 191-194
Annotated(s) ==
    [solution |-> s,
     upvotes_count |-> CountVoteType(s, "up"),
     downvotes_count |-> CountVoteType(s, "down")]

\* DetailKey with "upvotes_count" for "-upvotes_count"
DetailKeyUpvotesAscending(a) ==
    <<IF a.solution.ai_generated THEN 0 ELSE 1,
      AnswerTypeRank(a.solution.answer_type),
      a.upvotes_count,
      a.downvotes_count,
      0 - a.solution.created_at>>

\* order_by("-ai_generated", "answer_type", "-upvotes_count",
\*          "downvotes_count", "-created_at") as an ascending key
DetailKey(a) ==
    <<IF a.solution.ai_generated THEN 0 ELSE 1,
      AnswerTypeRank(a.solution.answer_type),
      0 - a.upvotes_count,
      a.downvotes_count,
      0 - a.solution.created_at>>

\* the rows of a query, each with its key, ordered by the key
Ordered(keyed) ==
    LET rows == OrderBy(keyed)
    IN  [i \in DOMAIN rows |-> rows[i].row]

\* the annotated solutions in the order the database scans them
DetailRows(scan) ==
    [i \in DOMAIN scan |->
        [key |-> DetailKey(Annotated(scan[i])), row |-> Annotated(scan[i])]]

ProblemDetail(pid) ==
    /\ UNCHANGED <<AI_ENABLED, problems, solutions, votes, nextVoteId, now, req, rep>>
    /\ IF pid \notin ProblemIds
       THEN last' = [op |-> "problem_detail", status |-> 404]
       ELSE \E scan \in Perms({s \in solutions : s.problem = pid}) :
              last' = [op |-> "problem_detail", status |-> 200,
                       problem_id |-> pid,
                       solutions |-> Ordered(DetailRows(scan))]

\* --------------------------------------------------------------- vote_solution
\* Vote.objects.filter(user=u, solution=s): the rows get() looks at
VotesOf(u, sid) == {v \in votes : v.user = u /\ v.solution = sid}

\* the Vote ids the requests now between get() and create() will still take
PendingCreates == Cardinality({q \in Procs : req[q].pc = "create"})

\* views.py 243-247
VoteResponse(vs, sid, message) ==
    [status |-> 200, message |-> message,
     upvotes |-> Cardinality({v \in vs : v.solution = sid /\ v.type = "up"}),
     downvotes |-> Cardinality({v \in vs : v.solution = sid /\ v.type = "down"})]

ServerError == [status |-> 500, message |-> "", upvotes |-> 0, downvotes |-> 0]
NotFound == [status |-> 404, message |-> "", upvotes |-> 0, downvotes |-> 0]

\* views.py 229 and the get() half of get_or_create (230-233)
VoteStart(p, u, sid, t) ==
    /\ req[p].pc = "idle"
    /\ UNCHANGED <<AI_ENABLED, problems, solutions, votes, nextVoteId, now, rep>>
    /\ IF sid \notin SolutionIds
       THEN \* get_object_or_404
            /\ UNCHANGED req
            /\ last' = [op |-> "vote_solution", user |-> u, solution |-> sid,
                        type |-> t, response |-> NotFound]
       ELSE IF Cardinality(VotesOf(u, sid)) > 1
       THEN \* get() raises MultipleObjectsReturned
            /\ UNCHANGED req
            /\ last' = [op |-> "vote_solution", user |-> u, solution |-> sid,
                        type |-> t, response |-> ServerError]
       ELSE /\ IF VotesOf(u, sid) = {}
               THEN /\ nextVoteId + PendingCreates <= MaxVotes
                    /\ req' = [req EXCEPT ![p] =
                                 [Idle EXCEPT !.pc = "create", !.user = u,
                                              !.solution = sid, !.vote_type = t]]
               ELSE req' = [req EXCEPT ![p] =
                              [Idle EXCEPT !.pc = "apply", !.user = u,
                                           !.solution = sid, !.vote_type = t,
                                           !.vote = CHOOSE v \in VotesOf(u, sid) : TRUE]]
            /\ last' = NoResponse

\* the row create() inserts: no type is given, the column takes
\* CharField's default, the empty string
NewVoteRow(id, u, sid) ==
    [id |-> id, solution |-> sid, user |-> u, type |-> ""]

\* the create() half of get_or_create
VoteCreate(p) ==
    /\ req[p].pc = "create"
    /\ LET v == NewVoteRow(nextVoteId, req[p].user, req[p].solution)
       IN  /\ votes' = votes \cup {v}
           /\ req' = [req EXCEPT ![p].pc = "apply", ![p].vote = v,
                                 ![p].created = TRUE]
    /\ nextVoteId' = nextVoteId + 1
    /\ last' = NoResponse
    /\ UNCHANGED <<AI_ENABLED, problems, solutions, now, rep>>

\* SameVoteAgain without the comparison of the types
SameVoteAgainAnyType(r) == ~r.created

\* views.py 235: the test on the instance the request holds
SameVoteAgain(r) == ~r.created /\ r.vote.type = r.vote_type

\* vote.delete(): DELETE ... WHERE id = pk
DeleteVote(vs, v) == {w \in vs : w.id # v.id}

\* vote.save(): UPDATE ... WHERE id = pk, and INSERT when no row was updated
SaveVote(vs, v) == {w \in vs : w.id # v.id} \cup {v}

\* views.py 235-241
VoteApply(p) ==
    /\ req[p].pc = "apply"
    /\ IF SameVoteAgain(req[p])
       THEN /\ votes' = DeleteVote(votes, req[p].vote)
            /\ req' = [req EXCEPT ![p].pc = "respond",
                                  ![p].message = "Vote removed"]
       ELSE /\ votes' = SaveVote(votes, [req[p].vote EXCEPT !.type = req[p].vote_type])
            /\ req' = [req EXCEPT ![p].pc = "respond",
                                  ![p].vote.type = req[p].vote_type,
                                  ![p].message = "Vote recorded"]
    /\ last' = NoResponse
    /\ UNCHANGED <<AI_ENABLED, problems, solutions, nextVoteId, now, rep>>

\* views.py 243-247
VoteRespond(p) ==
    /\ req[p].pc = "respond"
    /\ last' = [op |-> "vote_solution", user |-> req[p].user,
                solution |-> req[p].solution, type |-> req[p].vote_type,
                response |-> VoteResponse(votes, req[p].solution, req[p].message)]
    /\ req' = [req EXCEPT ![p] = Idle]
    /\ UNCHANGED <<AI_ENABLED, problems, solutions, votes, nextVoteId, now, rep>>

\* views.py 227-247, a request served with no other request beside it
VoteSolution(u, sid, t) ==
    /\ UNCHANGED <<AI_ENABLED, problems, solutions, now, req, rep>>
    /\ IF sid \notin SolutionIds
       THEN /\ UNCHANGED <<votes, nextVoteId>>
            /\ last' = [op |-> "vote_solution", user |-> u, solution |-> sid,
                        type |-> t, response |-> NotFound]
       ELSE IF Cardinality(VotesOf(u, sid)) > 1
       THEN /\ UNCHANGED <<votes, nextVoteId>>
            /\ last' = [op |-> "vote_solution", user |-> u, solution |-> sid,
                        type |-> t, response |-> ServerError]
       ELSE LET created == VotesOf(u, sid) = {}
                vote == IF created THEN NewVoteRow(nextVoteId, u, sid)
                        ELSE CHOOSE v \in VotesOf(u, sid) : TRUE
                got == IF created THEN votes \cup {vote} ELSE votes
                r == [Idle EXCEPT !.vote = vote, !.created = created,
                                  !.vote_type = t]
                removed == SameVoteAgain(r)
                after == IF removed THEN DeleteVote(got, vote)
                         ELSE SaveVote(got, [vote EXCEPT !.type = t])
            IN  /\ created => nextVoteId <= MaxVotes
                /\ votes' = after
                /\ nextVoteId' = IF created THEN nextVoteId + 1 ELSE nextVoteId
                /\ last' = [op |-> "vote_solution", user |-> u, solution |-> sid,
                            type |-> t,
                            response |-> VoteResponse(after, sid,
                                IF removed THEN "Vote removed" ELSE "Vote recorded")]

\* ----------------------------------------------------------- reports_dashboard
AiOf(v) == SolutionById(v.solution).ai_generated

\* the count queries of views.py 252-255 and 283-287, in the order they run
\* (Comment rows are not modelled)
ReportQueries ==
    <<"total_problems", "total_solutions", "total_votes", "ai_solutions",
      "human_solutions", "ai_votes", "human_votes">>

QueryResult(q) ==
    CASE q = "total_problems" -> Cardinality(problems)
      [] q = "total_solutions" -> Cardinality(solutions)
      [] q = "total_votes" -> Cardinality(votes)
      [] q = "ai_solutions" -> Cardinality({s \in solutions : s.ai_generated})
      [] q = "human_solutions" -> Cardinality({s \in solutions : ~s.ai_generated})
      [] q = "ai_votes" -> Cardinality({v \in votes : AiOf(v)})
      [] q = "human_votes" -> Cardinality({v \in votes : ~AiOf(v)})

\* one count query of the view
ReportCount ==
    /\ rep.pc # "render"
    /\ \E i \in DOMAIN ReportQueries :
         /\ ReportQueries[i] = (IF rep.pc = "idle" THEN "total_problems" ELSE rep.pc)
         /\ rep' = [rep EXCEPT ![ReportQueries[i]] = QueryResult(ReportQueries[i]),
                               !.pc = IF i = Len(ReportQueries) THEN "render"
                                      ELSE ReportQueries[i + 1]]
    /\ last' = NoResponse
    /\ UNCHANGED <<AI_ENABLED, problems, solutions, votes, nextVoteId, now, req>>

\* views.py 289-290: a quotient, kept as numerator and denominator
Average(total, n) == IF n # 0 THEN <<total, n>> ELSE <<0, 1>>

\* views.py 306-324: one row of top_ai_solutions / top_human_solutions
TopRow(s) ==
    [solution |-> s.id,
     upvotes |-> CountVoteType(s, "up"),
     downvotes |-> CountVoteType(s, "down"),
     score |-> CountVote(s)]

\* order_by("-score")
TopKey(r) == <<0 - r.score>>

NullSolution ==
    [id |-> 0, problem |-> 0, content |-> "", author |-> NoUser,
     ai_generated |-> FALSE, answer_type |-> "", created_at |-> 0]

\* auth_user LEFT OUTER JOIN solution ON author_id = user.id
\*           LEFT OUTER JOIN vote ON vote.solution_id = solution.id
JoinUser(u) ==
    LET ss == {s \in solutions : s.author = u}
    IN  IF ss = {} THEN {[solution |-> NullSolution, vote |-> NullVote]}
        ELSE UNION {JoinVote(s) : s \in ss}

\* BestUserRow without solution__vote__type="up" in the filter
BestUserRowAnyVote(u) ==
    [user |-> u,
     total_upvotes |->
        Cardinality({r \in JoinUser(u) :
                        /\ r.vote.id # 0
                        /\ r.solution.id # 0
                        /\ r.solution.ai_generated = FALSE}),
     total_solutions |->
        Cardinality({r.solution.id : r \in
                        {x \in JoinUser(u) :
                            x.solution.id # 0 /\ x.solution.ai_generated = FALSE}})]

\* views.py 326-334: one row of best_users
BestUserRow(u) ==
    [user |-> u,
     total_upvotes |->
        Cardinality({r \in JoinUser(u) :
                        /\ r.vote.id # 0
                        /\ r.vote.type = "up"
                        /\ r.solution.id # 0
                        /\ r.solution.ai_generated = FALSE}),
     total_solutions |->
        Cardinality({r.solution.id : r \in
                        {x \in JoinUser(u) :
                            x.solution.id # 0 /\ x.solution.ai_generated = FALSE}})]

\* order_by("-total_upvotes")
BestUserKey(r) == <<0 - r.total_upvotes>>

\* the annotated solutions and users in the order the database scans them
TopRows(scan) ==
    [i \in DOMAIN scan |-> [key |-> TopKey(TopRow(scan[i])), row |-> TopRow(scan[i])]]

BestUserRows(scan) ==
    [i \in DOMAIN scan |->
        [key |-> BestUserKey(BestUserRow(scan[i])), row |-> BestUserRow(scan[i])]]

\* views.py 351-375: the context, with the lazy querysets of 306-336 as the
\* template evaluates them
ReportContext(r, ai_scan, human_scan, user_scan) ==
    [op |-> "reports_dashboard",
     engagement |-> [total_problems |-> r.total_problems,
                     total_solutions |-> r.total_solutions,
                     total_votes |-> r.total_votes],
     ai |-> [ai_solutions |-> r.ai_solutions,
             human_solutions |-> r.human_solutions,
             ai_avg_votes |-> Average(r.ai_votes, r.ai_solutions),
             human_avg_votes |-> Average(r.human_votes, r.human_solutions)],
     \* the locals of 286-287 the averages are computed from
     ai_votes |-> r.ai_votes,
     human_votes |-> r.human_votes,
     oversight |->
        [top_ai_solutions |-> Limit(Ordered(TopRows(ai_scan)), TopLimit),
         top_human_solutions |->
             Limit(Ordered(TopRows(human_scan)), TopLimit),
         best_users |->
             Limit(Ordered(BestUserRows(user_scan)), TopLimit)]]

\* views.py 377: render
ReportRender ==
    /\ rep.pc = "render"
    /\ \E ai_scan \in Perms({s \in solutions : s.ai_generated}),
          human_scan \in Perms({s \in solutions : ~s.ai_generated}),
          user_scan \in Perms(Users) :
         last' = ReportContext(rep, ai_scan, human_scan, user_scan)
    /\ rep' = RepIdle
    /\ UNCHANGED <<AI_ENABLED, problems, solutions, votes, nextVoteId, now, req>>

\* views.py 250-377, a request served with no other request beside it
ReportsDashboard ==
    /\ rep.pc = "idle"
    /\ \E ai_scan \in Perms({s \in solutions : s.ai_generated}),
          human_scan \in Perms({s \in solutions : ~s.ai_generated}),
          user_scan \in Perms(Users) :
         last' = ReportContext(
                    [q \in {ReportQueries[i] : i \in DOMAIN ReportQueries} |->
                        QueryResult(q)],
                    ai_scan, human_scan, user_scan)
    /\ UNCHANGED <<AI_ENABLED, problems, solutions, votes, nextVoteId, now, req, rep>>

\* ------------------------------------------------------------------ histories
\* hist: the vote_solution calls that ran from request to response with no
\* step of any other request in between, the last two of an unbroken run,
\* each with the rows of (user, solution) it found
NoSolo == [worker |-> 0, before |-> {}]

Entry(response, before) ==
    [user |-> response.user, solution |-> response.solution,
     type |-> response.type, response |-> response.response, before |-> before]

Remember(entry) ==
    (IF Len(hist) = 2 THEN Tail(hist) ELSE hist) \o <<entry>>

Untracked == UNCHANGED <<solo, hist>>

Disturb == solo' = NoSolo /\ hist' = <<>>

TrackStart(p, u, sid) ==
    IF last'.op = "vote_solution"
    THEN \* answered at once (404, 500)
         /\ solo' = NoSolo
         /\ hist' = IF AllIdle THEN Remember(Entry(last', VotesOf(u, sid)))
                    ELSE <<>>
    ELSE \* in flight: what the store held after the call before the last
         \* is no longer the state
         /\ solo' = IF AllIdle THEN [worker |-> p, before |-> VotesOf(u, sid)]
                    ELSE NoSolo
         /\ hist' = IF ~AllIdle THEN <<>>
                    ELSE IF Len(hist) = 2 THEN Tail(hist) ELSE hist

TrackStep == UNCHANGED <<solo, hist>>

TrackRespond(p) ==
    /\ solo' = NoSolo
    /\ hist' = IF solo.worker = p THEN Remember(Entry(last', solo.before))
               ELSE <<>>

\* a whole request served while no other is in flight
TrackAlone(u, sid) ==
    /\ AllIdle
    /\ solo' = NoSolo
    /\ hist' = Remember(Entry(last', VotesOf(u, sid)))

\* ---------------------------------------------------------------------- spec
Init ==
    /\ AI_ENABLED \in BOOLEAN
    /\ problems = {}
    /\ solutions = {}
    /\ votes = {}
    /\ nextVoteId = 1
    /\ now = 0
    /\ req = [p \in Procs |-> Idle]
    /\ rep = RepIdle
    /\ solo = NoSolo
    /\ hist = <<>>
    /\ last = NoResponse

\* the submission path, every input
Next ==
    \/ \E u \in Users, d \in Descriptions, c \in ClassifyResponses,
          g \in GenerateResponses : SubmitProblem(u, d, c, g) /\ Untracked
    \/ \E u \in Users, pid \in 1..MaxProblems, content \in Contents :
          AddHumanSolution(u, pid, content) /\ Untracked

Spec == Init /\ [][Next]_vars

\* In the specifications below the AI answers and, where the answer type is
\* not read, the description are held fixed: they reach the topic, the
\* content and the answer type of a row only, which the votes and the
\* reports do not read.
PlainDescription == [given |-> TRUE, words |-> {}]
ArraysResponse == [ok |-> TRUE, text |-> "Arrays"]
GeneratedResponse == [ok |-> TRUE, text |-> "generated"]

\* the problem page and the dashboard, over the stores that submissions,
\* human solutions and votes build
NextPages ==
    \/ \E u \in Users, d \in {x \in Descriptions : x.given} :
          SubmitProblem(u, d, ArraysResponse, GeneratedResponse) /\ Untracked
    \/ \E u \in Users, pid \in 1..MaxProblems :
          AddHumanSolution(u, pid, "text") /\ Untracked
    \/ \E u \in Users, sid \in 1..MaxSolutions, t \in VoteTypes :
          VoteSolution(u, sid, t) /\ Untracked
    \/ \E pid \in 1..MaxProblems : ProblemDetail(pid) /\ Untracked
    \/ ReportsDashboard /\ Untracked

SpecPages == Init /\ [][NextPages]_vars

\* a report request served, query by query, beside the requests that write
NextReport ==
    \/ SubmitProblem(1, PlainDescription, ArraysResponse, GeneratedResponse)
          /\ Untracked
    \/ \E u \in Users, pid \in 1..MaxProblems :
          AddHumanSolution(u, pid, "text") /\ Untracked
    \/ \E u \in Users, sid \in 1..MaxSolutions :
          VoteSolution(u, sid, "up") /\ Untracked
    \/ ReportCount /\ Untracked
    \/ ReportRender /\ Untracked

SpecReport == Init /\ [][NextReport]_vars

\* the vote requests of two workers, step by step, with the history of the
\* calls that ran alone

NextVotes ==
    \/ SubmitProblem(1, PlainDescription, ArraysResponse, GeneratedResponse) /\ Disturb
    \/ \E u \in Users, sid \in 1..MaxSolutions, t \in VoteTypes :
          VoteSolution(u, sid, t) /\ TrackAlone(u, sid)
    \/ \E p \in Procs, u \in Users, sid \in 1..MaxSolutions, t \in VoteTypes :
          VoteStart(p, u, sid, t) /\ TrackStart(p, u, sid)
    \/ \E p \in Procs : VoteCreate(p) /\ TrackStep
    \/ \E p \in Procs : VoteApply(p) /\ TrackStep
    \/ \E p \in Procs : VoteRespond(p) /\ TrackRespond(p)

SpecVotes == Init /\ [][NextVotes]_vars

\* -------------------------------------------------------------------- claims
UpVotesOn(sid) == {v \in votes : v.solution = sid /\ v.type = "up"}
DownVotesOn(sid) == {v \in votes : v.solution = sid /\ v.type = "down"}

\* C1: in every reachable state there is at most one Vote row per
\* (user, solution) pair, also when vote_solution requests of one user on
\* one solution interleave.
AtMostOneVotePerPair ==
    \A v, w \in votes : (v.user = w.user /\ v.solution = w.solution) => v.id = w.id

BackToBack(a, b) ==
    /\ Len(hist) = 2
    /\ hist[1].user = hist[2].user
    /\ hist[1].solution = hist[2].solution
    /\ hist[1].solution \in SolutionIds
    /\ hist[1].type = a
    /\ hist[2].type = b

\* C2 as stated: after vote_solution(u, s, t) has run twice back to back with
\* the same t and no step of another request in between, no Vote of u on s
\* is left, whatever the rows of (u, s) were before.
TwiceSameVoteLeavesNone ==
    \A t \in VoteTypes :
        BackToBack(t, t) => VotesOf(hist[2].user, hist[2].solution) = {}

\* C2: after vote_solution(u, s, t) has run twice back to back with the same
\* t: if u had no Vote on s, or one Vote of another type, no Vote of u on s
\* is left; if u had one Vote of type t, one Vote of type t is there again.
TwiceSameVoteTogglesTwice ==
    \A t \in VoteTypes :
        (BackToBack(t, t) /\ Cardinality(hist[1].before) <= 1) =>
            LET mine == VotesOf(hist[2].user, hist[2].solution)
            IN  IF \E v \in hist[1].before : v.type = t
                THEN Cardinality(mine) = 1 /\ \A v \in mine : v.type = t
                ELSE mine = {}

\* created by the first call, removed by the second
VotedTwiceFromNone ==
    /\ BackToBack("up", "up")
    /\ hist[1].before = {}
    /\ hist[1].response.message = "Vote recorded"
    /\ hist[2].response.message = "Vote removed"

UpThenDownResult ==
    /\ Cardinality(VotesOf(hist[2].user, hist[2].solution)) = 1
    /\ \A v \in VotesOf(hist[2].user, hist[2].solution) : v.type = "down"
    /\ hist[2].response.status = 200
    /\ hist[2].response.upvotes = Cardinality(UpVotesOn(hist[2].solution))
    /\ hist[2].response.downvotes = Cardinality(DownVotesOn(hist[2].solution))

\* C3: after vote_solution(u, s, "up") and then vote_solution(u, s, "down"),
\* back to back, exactly one Vote of u on s is left, its type is "down", and
\* the counts the second call returned are the numbers of up and down rows
\* on s, whatever the rows of (u, s) were before.
UpThenDownLeavesOneDown == BackToBack("up", "down") => UpThenDownResult

\* the same, from the stores that hold at most one row of (u, s)
UpThenDownLeavesOneDownFromOneRow ==
    (BackToBack("up", "down") /\ Cardinality(hist[1].before) <= 1)
        => UpThenDownResult

\* C4: in every reachable state every stored Vote has type "up" or "down".
EveryVoteTypeIsAChoice == \A v \in votes : v.type \in VoteChoices

SubmitCreated ==
    /\ last.status = 302
    /\ Cardinality(problems) = last.problems_before + 1
    /\ Cardinality(solutions) = last.solutions_before + 1
    /\ Cardinality({p \in problems : p.id = last.problem_id}) = 1
    /\ Cardinality({s \in solutions : s.problem = last.problem_id}) = 1
    /\ \A s \in solutions :
          s.problem = last.problem_id => s.ai_generated /\ s.author = NoUser

\* C5 as stated: every submit_problem POST creates exactly one Problem and
\* exactly one Solution attached to it, AI-generated and without author.
EverySubmitCreates == last.op = "submit_problem" => SubmitCreated

\* C5: every submit_problem POST that carries a description creates exactly
\* one Problem and exactly one Solution attached to it, AI-generated and
\* without author, whether the AI is disabled, answers, or fails at the
\* classify or at the generate call.
SubmitWithDescriptionCreates ==
    (last.op = "submit_problem" /\ last.given) => SubmitCreated

SubmitCreatedDespiteAiFailure ==
    /\ last.op = "submit_problem"
    /\ last.given
    /\ last.ai = "generate_failed"
    /\ SubmitCreated

SubmittedProblem == CHOOSE p \in problems : p.id = last.problem_id
SubmittedSolution == CHOOSE s \in solutions : s.problem = last.problem_id
AiFailed == last.ai \in {"classify_failed", "generate_failed"}

\* C6 as stated: when an AI call fails the topic is "Unknown", or
\* "Uncategorized" if only the classification fails, and the content is a
\* fixed fallback message.
FailureTopicUnknownOrUncategorized ==
    (last.op = "submit_problem" /\ last.status = 302 /\ AiFailed) =>
        /\ SubmittedProblem.topic =
              (IF last.ai = "classify_failed" THEN "Uncategorized" ELSE "Unknown")
        /\ SubmittedSolution.content = "AI failed to generate a solution."

\* C6: when the classify or the generate call fails, the Problem is created
\* with topic "Unknown", also when it is the classification that fails, and
\* the Solution content is the fixed message "AI failed to generate a
\* solution."
FailureTopicUnknown ==
    (last.op = "submit_problem" /\ last.status = 302 /\ AiFailed) =>
        /\ SubmittedProblem.topic = "Unknown"
        /\ SubmittedSolution.content = "AI failed to generate a solution."

ClassifyFailedSubmitted ==
    /\ last.op = "submit_problem"
    /\ last.status = 302
    /\ last.ai = "classify_failed"
    /\ SubmittedProblem.topic = "Unknown"

\* the columns' own order of the answer types
TypeBefore(x, y) ==
    <<x, y>> \in {<<"direct", "example">>, <<"direct", "explanation">>,
                  <<"direct", "opinion">>, <<"example", "explanation">>,
                  <<"example", "opinion">>, <<"explanation", "opinion">>}

\* solution a has the smaller key of the two
KeyBefore(a, b) ==
    LET ua == Cardinality(UpVotesOn(a.id))
        ub == Cardinality(UpVotesOn(b.id))
        da == Cardinality(DownVotesOn(a.id))
        db == Cardinality(DownVotesOn(b.id))
    IN  \/ a.ai_generated /\ ~b.ai_generated
        \/ /\ a.ai_generated = b.ai_generated
           /\ \/ TypeBefore(a.answer_type, b.answer_type)
              \/ /\ a.answer_type = b.answer_type
                 /\ \/ ua > ub
                    \/ /\ ua = ub
                       /\ \/ da < db
                          \/ da = db /\ a.created_at > b.created_at

\* C7: the solution list of problem_detail holds the solutions of the
\* problem, each once, and of any two of them the one with the smaller key
\* (ai_generated descending, answer_type ascending, upvotes descending,
\* downvotes ascending, created_at descending) comes first.
DetailOrderedByKey ==
    (last.op = "problem_detail" /\ last.status = 200) =>
        LET rows == last.solutions
            mine == {s \in solutions : s.problem = last.problem_id}
        IN  /\ Len(rows) = Cardinality(mine)
            /\ {rows[i].solution : i \in DOMAIN rows} = mine
            /\ \A i, j \in DOMAIN rows :
                  KeyBefore(rows[i].solution, rows[j].solution) => i < j

\* an AI solution listed before a human one that has more up-votes, and two
\* solutions that tie on the first four keys listed newest first
DetailOrderDecided ==
    /\ last.op = "problem_detail"
    /\ last.status = 200
    /\ \E i, j \in DOMAIN last.solutions :
          /\ i < j
          /\ last.solutions[i].solution.ai_generated
          /\ ~last.solutions[j].solution.ai_generated
          /\ last.solutions[j].upvotes_count > last.solutions[i].upvotes_count
    /\ \E i, j \in DOMAIN last.solutions :
          /\ i < j
          /\ ~last.solutions[i].solution.ai_generated
          /\ ~last.solutions[j].solution.ai_generated
          /\ last.solutions[i].upvotes_count = last.solutions[j].upvotes_count
          /\ last.solutions[i].downvotes_count = last.solutions[j].downvotes_count
          /\ last.solutions[i].solution.created_at >
                last.solutions[j].solution.created_at

TopListOk(rows) ==
    /\ Len(rows) <= 10
    /\ \A i \in DOMAIN rows : rows[i].score = rows[i].upvotes + rows[i].downvotes
    /\ \A i, j \in DOMAIN rows : i < j => rows[i].score >= rows[j].score

\* C8: in both top-solutions lists of the dashboard every row's score is its
\* upvotes plus its downvotes, the rows are in descending order of score and
\* there are at most 10 of them.
TopSolutionsScoreIsUpPlusDown ==
    last.op = "reports_dashboard" =>
        /\ TopListOk(last.oversight.top_ai_solutions)
        /\ TopListOk(last.oversight.top_human_solutions)

HumanUpvotesOf(u) ==
    {v \in votes : /\ v.type = "up"
                   /\ \E s \in solutions : /\ s.id = v.solution
                                           /\ ~s.ai_generated
                                           /\ s.author = u}

\* C9: no AI-generated Solution has an author, and in best_users each user's
\* total_upvotes is the number of up-votes on the human solutions that user
\* wrote, so 0 for a user who wrote none, whatever votes the AI solutions got.
BestUsersCountHumanUpvotesOnly ==
    /\ \A s \in solutions : s.ai_generated => s.author = NoUser
    /\ last.op = "reports_dashboard" =>
          \A i \in DOMAIN last.oversight.best_users :
             LET row == last.oversight.best_users[i]
             IN  /\ row.total_upvotes = Cardinality(HumanUpvotesOf(row.user))
                 /\ ({s \in solutions : s.author = row.user} = {}
                        => row.total_upvotes = 0)

\* a report over a store where an AI solution has an up-vote, one user has an
\* up-vote on a human solution and the other user wrote no solution
BestUsersSeparated ==
    /\ last.op = "reports_dashboard"
    /\ \E v \in votes : v.type = "up" /\ AiOf(v)
    /\ \E i, j \in DOMAIN last.oversight.best_users :
          /\ last.oversight.best_users[i].total_upvotes > 0
          /\ last.oversight.best_users[j].total_upvotes = 0
          /\ {s \in solutions :
                 s.author = last.oversight.best_users[j].user} = {}

\* C10: every report is a snapshot of one store state: total_solutions is
\* ai_solutions + human_solutions and total_votes is the AI vote total plus
\* the human vote total, also when requests that write are served beside it.
ReportIsOneSnapshot ==
    last.op = "reports_dashboard" =>
        /\ last.engagement.total_solutions =
              last.ai.ai_solutions + last.ai.human_solutions
        /\ last.engagement.total_votes = last.ai_votes + last.human_votes

====
